---- MODULE Spec2Model ----
(***************************************************************************)
(* Verification model of the legacy transaction envelope                   *)
(* (crates/consensus/src/transaction/legacy.rs) and the receipt / bloom    *)
(* types (crates/consensus/src/receipt/receipts.rs).                       *)
(*                                                                         *)
(* Bytes are integers 0..255, buffers are sequences of bytes.  The RLP     *)
(* primitives of the alloy_rlp / alloy_primitives crates that the source   *)
(* calls are modelled byte for byte; keccak256 is modelled as an ideal     *)
(* (collision free) hash.                                                  *)
(***************************************************************************)
EXTENDS Integers, Sequences, FiniteSets, TLC

(***************************************************************************)
(* Generic helpers                                                         *)
(***************************************************************************)
Take(s, n) == SubSeq(s, 1, n)
Drop(s, n) == SubSeq(s, n + 1, Len(s))
Fill(n, b) == [i \in 1..n |-> b]

\* Option<T>: None is the empty sequence, Some(x) the one-element sequence.
None == <<>>
Some(x) == <<x>>

RECURSIVE BE(_)
\* minimal big-endian bytes of a natural number (no leading zero byte)
BE(n) == IF n = 0 THEN <<>> ELSE BE(n \div 256) \o <<n % 256>>

RECURSIVE FromBE(_)
FromBE(b) == IF b = <<>> THEN 0 ELSE FromBE(Take(b, Len(b) - 1)) * 256 + b[Len(b)]

\* result of a decoder: the value and the cursor after it, or a typed error
Ok(v, rest) == [ok |-> TRUE, val |-> v, rest |-> rest, err |-> "Ok", expected |-> 0, got |-> 0]
Err(e, rest) == [ok |-> FALSE, val |-> <<>>, rest |-> rest, err |-> e, expected |-> 0, got |-> 0]
ListLengthMismatch(e, g, rest) ==
    [ok |-> FALSE, val |-> <<>>, rest |-> rest, err |-> "ListLengthMismatch", expected |-> e, got |-> g]

\* the operator `?`: an error is returned to the caller, a value is handed on
Try(r, K(_)) == IF r.ok THEN K(r) ELSE r

(***************************************************************************)
(* alloy_rlp: Header                                                       *)
(***************************************************************************)
EMPTY_STRING_CODE == 128
EMPTY_LIST_CODE == 192

Header(list, payload_length) == [list |-> list, payload_length |-> payload_length]

length_of_length(payload_length) ==
    IF payload_length < 56 THEN 1 ELSE 1 + Len(BE(payload_length))

HeaderEncode(h) ==
    IF h.payload_length < 56
    THEN << (IF h.list THEN EMPTY_LIST_CODE ELSE EMPTY_STRING_CODE) + h.payload_length >>
    ELSE << (IF h.list THEN 247 ELSE 183) + Len(BE(h.payload_length)) >> \o BE(h.payload_length)

HeaderLengthWithPayload(h) == length_of_length(h.payload_length) + h.payload_length

\* the last step of Header::decode: the payload must be present in the buffer
HeaderFinish(list, p, rest) ==
    IF Len(rest) < p THEN Err("InputTooShort", rest) ELSE Ok(Header(list, p), rest)

HeaderDecode(buf) ==
    IF buf = <<>> THEN Err("InputTooShort", buf)
    ELSE LET b == buf[1]
             rest == Tail(buf)
         IN  IF b < EMPTY_STRING_CODE THEN HeaderFinish(FALSE, 1, buf)
             ELSE IF b <= 183 THEN
                 LET p == b - EMPTY_STRING_CODE
                 IN  IF p = 1 /\ rest = <<>> THEN Err("InputTooShort", rest)
                     ELSE IF p = 1 /\ rest[1] < EMPTY_STRING_CODE
                          THEN Err("NonCanonicalSingleByte", rest)
                          ELSE HeaderFinish(FALSE, p, rest)
             ELSE IF b <= 191 \/ b >= 248 THEN
                 LET list == b >= 248
                     lol == b - (IF list THEN 247 ELSE 183)
                 IN  IF Len(rest) < lol THEN Err("InputTooShort", rest)
                     ELSE LET lenBytes == Take(rest, lol)
                              rest2 == Drop(rest, lol)
                          IN  IF lenBytes[1] = 0 THEN Err("LeadingZero", rest2)
                              ELSE IF FromBE(lenBytes) < 56 THEN Err("NonCanonicalSize", rest2)
                              ELSE HeaderFinish(list, FromBE(lenBytes), rest2)
             ELSE HeaderFinish(TRUE, b - EMPTY_LIST_CODE, rest)

\* Header::decode_bytes(buf, is_list): the payload of the next string (or list)
HeaderDecodeBytes(buf, is_list) ==
    Try(HeaderDecode(buf), LAMBDA h :
        IF h.val.list # is_list
        THEN Err(IF is_list THEN "UnexpectedString" ELSE "UnexpectedList", h.rest)
        ELSE Ok(Take(h.rest, h.val.payload_length), Drop(h.rest, h.val.payload_length)))

(***************************************************************************)
(* alloy_rlp: scalars, byte strings, fixed byte arrays                     *)
(***************************************************************************)
\* unsigned integers (u8, u64, u128, U256): minimal big-endian form
UintEncode(x) ==
    IF x = 0 THEN <<EMPTY_STRING_CODE>>
    ELSE IF x < EMPTY_STRING_CODE THEN <<x>>
    ELSE <<EMPTY_STRING_CODE + Len(BE(x))>> \o BE(x)

UintLength(x) == IF x < EMPTY_STRING_CODE THEN 1 ELSE 1 + Len(BE(x))

\* decode of an unsigned integer of at most maxBytes bytes
UintDecode(buf, maxBytes) ==
    Try(HeaderDecodeBytes(buf, FALSE), LAMBDA b :
        IF Len(b.val) > maxBytes THEN Err("Overflow", b.rest)
        ELSE IF b.val # <<>> /\ b.val[1] = 0 THEN Err("LeadingZero", b.rest)
        ELSE Ok(FromBE(b.val), b.rest))

BoolEncode(b) == IF b THEN <<1>> ELSE <<EMPTY_STRING_CODE>>

BoolDecode(buf) ==
    Try(UintDecode(buf, 1), LAMBDA u :
        IF u.val = 0 THEN Ok(FALSE, u.rest)
        ELSE IF u.val = 1 THEN Ok(TRUE, u.rest)
        ELSE Err("Custom: invalid bool value, must be 0 or 1", u.rest))

\* byte strings ([u8], Bytes) and fixed byte arrays ([u8; N], Address, B256, Bloom)
BytesEncode(bytes) ==
    IF Len(bytes) # 1 \/ bytes[1] >= EMPTY_STRING_CODE
    THEN HeaderEncode(Header(FALSE, Len(bytes))) \o bytes
    ELSE bytes

BytesLength(bytes) ==
    IF Len(bytes) # 1 \/ bytes[1] >= EMPTY_STRING_CODE
    THEN length_of_length(Len(bytes)) + Len(bytes)
    ELSE 1

BytesDecode(buf) == HeaderDecodeBytes(buf, FALSE)

FixedBytesDecode(buf, n) ==
    Try(HeaderDecodeBytes(buf, FALSE), LAMBDA b :
        IF Len(b.val) # n THEN Err("UnexpectedLength", b.rest) ELSE b)

(***************************************************************************)
(* alloy_primitives: keccak256, Address, TxKind, Parity, Signature         *)
(***************************************************************************)
\* keccak256 as an ideal hash: equal digests exactly for equal inputs
keccak256(bytes) == [keccak256 |-> bytes]

ADDRESS_LEN == 20

Create == [call |-> FALSE, to |-> <<>>]
Call(addr) == [call |-> TRUE, to |-> addr]

TxKindEncode(k) == IF k.call THEN BytesEncode(k.to) ELSE <<EMPTY_STRING_CODE>>
TxKindLength(k) == IF k.call THEN BytesLength(k.to) ELSE 1

TxKindDecode(buf) ==
    IF buf = <<>> THEN Err("InputTooShort", buf)
    ELSE IF buf[1] = EMPTY_STRING_CODE THEN Ok(Create, Tail(buf))
    ELSE Try(FixedBytesDecode(buf, ADDRESS_LEN), LAMBDA a : Ok(Call(a.val), a.rest))

\* enum Parity { Eip155(u64), NonEip155(bool), Parity(bool) }
ParityEip155(v) == [tag |-> "Eip155", y |-> FALSE, v |-> v]
ParityNonEip155(y) == [tag |-> "NonEip155", y |-> y, v |-> 0]
ParityParity(y) == [tag |-> "Parity", y |-> y, v |-> 0]

\* Parity::chain_id
ParityChainId(p) ==
    IF p.tag = "Eip155" /\ p.v >= 35 THEN Some((p.v - 35) \div 2) ELSE None

ParityEncode(p) ==
    CASE p.tag = "Eip155" -> UintEncode(p.v)
      [] p.tag = "NonEip155" -> UintEncode(27 + (IF p.y THEN 1 ELSE 0))
      [] p.tag = "Parity" -> BoolEncode(p.y)

ParityLength(p) == IF p.tag = "Eip155" THEN UintLength(p.v) ELSE 1

ParityDecode(buf) ==
    Try(UintDecode(buf, 8), LAMBDA u :
        IF u.val \in {0, 1} THEN Ok(ParityParity(u.val = 1), u.rest)
        ELSE IF u.val \in {27, 28} THEN Ok(ParityNonEip155(u.val = 28), u.rest)
        ELSE IF u.val >= 35 THEN Ok(ParityEip155(u.val), u.rest)
        ELSE Err("Custom: invalid parity value", u.rest))

\* struct Signature { v: Parity, r: U256, s: U256 }
Signature(v, r, s) == [v |-> v, r |-> r, s |-> s]

with_parity(sig, parity) == Signature(parity, sig.r, sig.s)

write_rlp_vrs(sig) == ParityEncode(sig.v) \o UintEncode(sig.r) \o UintEncode(sig.s)

rlp_vrs_len(sig) == UintLength(sig.r) + UintLength(sig.s) + ParityLength(sig.v)

decode_rlp_vrs(buf) ==
    Try(ParityDecode(buf), LAMBDA v :
    Try(UintDecode(v.rest, 32), LAMBDA r :
    Try(UintDecode(r.rest, 32), LAMBDA s :
    Ok(Signature(v.val, r.val, s.val), s.rest))))

(***************************************************************************)
(* legacy.rs: TxLegacy                                                     *)
(***************************************************************************)
TxLegacy(chain_id, nonce, gas_price, gas_limit, to, value, input) ==
    [chain_id |-> chain_id, nonce |-> nonce, gas_price |-> gas_price,
     gas_limit |-> gas_limit, to |-> to, value |-> value, input |-> input]

\* variant of legacy_sig! that leaves every signature as it is
legacy_sig_unchanged(signature) == signature

\* macro legacy_sig!: a plain boolean parity becomes the raw 27/28 form
legacy_sig(signature) ==
    IF signature.v.tag = "Parity"
    THEN with_parity(signature, ParityNonEip155(signature.v.y))
    ELSE signature

eip155_fields_len(tx) ==
    IF tx.chain_id = None THEN 0 ELSE UintLength(tx.chain_id[1]) + 2

encode_eip155_signing_fields(tx) ==
    IF tx.chain_id # None
    THEN UintEncode(tx.chain_id[1]) \o UintEncode(0) \o UintEncode(0)
    ELSE <<>>

rlp_encoded_fields_length(tx) ==
    UintLength(tx.nonce) + UintLength(tx.gas_price) + UintLength(tx.gas_limit)
        + TxKindLength(tx.to) + UintLength(tx.value) + BytesLength(tx.input)

rlp_encode_fields(tx) ==
    UintEncode(tx.nonce) \o UintEncode(tx.gas_price) \o UintEncode(tx.gas_limit)
        \o TxKindEncode(tx.to) \o UintEncode(tx.value) \o BytesEncode(tx.input)

\* RlpEcdsaTx::rlp_header_signed (trait default)
rlp_header_signed(tx, signature) ==
    Header(TRUE, rlp_encoded_fields_length(tx) + rlp_vrs_len(signature))

rlp_encoded_length_with_signature(tx, signature) ==
    HeaderLengthWithPayload(rlp_header_signed(tx, legacy_sig(signature)))

\* variant of rlp_encode_signed that also writes the EIP-155 signing fields
\* (chain id, 0, 0) after (v, r, s), outside the declared payload
rlp_encode_signed_with_signing_fields(tx, signature) ==
    HeaderEncode(rlp_header_signed(tx, legacy_sig(signature)))
        \o rlp_encode_fields(tx)
        \o write_rlp_vrs(legacy_sig(signature))
        \o encode_eip155_signing_fields(tx)

rlp_encode_signed(tx, signature) ==
    HeaderEncode(rlp_header_signed(tx, legacy_sig(signature)))
        \o rlp_encode_fields(tx)
        \o write_rlp_vrs(legacy_sig(signature))

\* variant of eip2718_encoded_length that counts a leading type byte, as the
\* typed envelopes do
eip2718_encoded_length_with_type_byte(tx, signature) ==
    1 + rlp_encoded_length_with_signature(tx, signature)

eip2718_encoded_length(tx, signature) == rlp_encoded_length_with_signature(tx, signature)

network_encoded_length(tx, signature) == rlp_encoded_length_with_signature(tx, signature)

network_header(tx, signature) == rlp_header_signed(tx, signature)

rlp_decode_fields(buf) ==
    Try(UintDecode(buf, 8), LAMBDA nonce :
    Try(UintDecode(nonce.rest, 16), LAMBDA gas_price :
    Try(UintDecode(gas_price.rest, 8), LAMBDA gas_limit :
    Try(TxKindDecode(gas_limit.rest), LAMBDA to :
    Try(UintDecode(to.rest, 32), LAMBDA value :
    Try(BytesDecode(value.rest), LAMBDA input :
    Ok(TxLegacy(None, nonce.val, gas_price.val, gas_limit.val, to.val, value.val, input.val),
       input.rest)))))))

\* the parity forms a legacy transaction accepts
LegacyParity(v) == v.tag \in {"Eip155", "NonEip155"}

\* variant of rlp_decode_with_signature that leaves chain_id as decoded from the fields
rlp_decode_with_signature_keep_chain_id(buf) ==
    Try(HeaderDecode(buf), LAMBDA header :
    IF ~header.val.list THEN Err("UnexpectedString", header.rest) ELSE
    Try(rlp_decode_fields(header.rest), LAMBDA tx :
    Try(decode_rlp_vrs(tx.rest), LAMBDA signature :
    IF ~LegacyParity(signature.val.v)
    THEN Err("Custom: invalid parity for legacy transaction", signature.rest) ELSE
    IF Len(signature.rest) + header.val.payload_length # Len(header.rest)
    THEN ListLengthMismatch(header.val.payload_length,
                            Len(header.rest) - Len(signature.rest), signature.rest)
    ELSE Ok([tx |-> tx.val, signature |-> signature.val], signature.rest))))

\* variant of rlp_decode_with_signature without the final length comparison
rlp_decode_with_signature_no_length_check(buf) ==
    Try(HeaderDecode(buf), LAMBDA header :
    IF ~header.val.list THEN Err("UnexpectedString", header.rest) ELSE
    Try(rlp_decode_fields(header.rest), LAMBDA tx :
    Try(decode_rlp_vrs(tx.rest), LAMBDA signature :
    IF ~LegacyParity(signature.val.v)
    THEN Err("Custom: invalid parity for legacy transaction", signature.rest) ELSE
    Ok([tx |-> [tx.val EXCEPT !.chain_id = ParityChainId(signature.val.v)],
        signature |-> signature.val], signature.rest))))

\* remaining is Len(header.rest): the buffer length right after the header
rlp_decode_with_signature(buf) ==
    Try(HeaderDecode(buf), LAMBDA header :
    IF ~header.val.list THEN Err("UnexpectedString", header.rest) ELSE
    Try(rlp_decode_fields(header.rest), LAMBDA tx :
    Try(decode_rlp_vrs(tx.rest), LAMBDA signature :
    IF ~LegacyParity(signature.val.v)
    THEN Err("Custom: invalid parity for legacy transaction", signature.rest) ELSE
    IF Len(signature.rest) + header.val.payload_length # Len(header.rest)
    THEN ListLengthMismatch(header.val.payload_length,
                            Len(header.rest) - Len(signature.rest), signature.rest)
    ELSE Ok([tx |-> [tx.val EXCEPT !.chain_id = ParityChainId(signature.val.v)],
             signature |-> signature.val], signature.rest))))

\* variant of encode_for_signing that never writes the chain id fields
encode_for_signing_fields_only(tx) ==
    HeaderEncode(Header(TRUE, rlp_encoded_fields_length(tx) + eip155_fields_len(tx)))
        \o rlp_encode_fields(tx)

encode_for_signing(tx) ==
    HeaderEncode(Header(TRUE, rlp_encoded_fields_length(tx) + eip155_fields_len(tx)))
        \o rlp_encode_fields(tx)
        \o encode_eip155_signing_fields(tx)

payload_len_for_signature(tx) ==
    HeaderLengthWithPayload(Header(TRUE, rlp_encoded_fields_length(tx) + eip155_fields_len(tx)))

\* variant of tx_hash_with_type that hashes the unsigned (signing) encoding
tx_hash_with_type_unsigned(tx, signature) == keccak256(encode_for_signing(tx))

tx_hash_with_type(tx, signature) == keccak256(rlp_encode_signed(tx, signature))

\* RlpEcdsaTx::tx_hash (trait default): tx_hash_with_type with DEFAULT_TX_TYPE
tx_hash(tx, signature) == tx_hash_with_type(tx, signature)

Signed(tx, signature, hash) == [tx |-> tx, signature |-> signature, hash |-> hash]

into_signed(tx, signature) ==
    LET sig2 == IF signature.v.tag = "Parity"
                THEN with_parity(signature, ParityNonEip155(signature.v.y))
                ELSE signature
    IN  Signed(tx, sig2, tx_hash(tx, sig2))

\* impl Encodable for TxLegacy
TxLegacy_encode(tx) == encode_for_signing(tx)

TxLegacy_length(tx) ==
    LET payload_length == rlp_encoded_fields_length(tx) + eip155_fields_len(tx)
    IN  length_of_length(payload_length) + payload_length

\* impl Decodable for TxLegacy; remaining_len is Len(header.rest). After the
\* six fields anything left in the buffer is read as chain_id, r and s.
TxLegacy_decode(data) ==
    Try(HeaderDecode(data), LAMBDA header :
    IF header.val.payload_length > Len(header.rest)
    THEN Err("InputTooShort", header.rest) ELSE
    Try(rlp_decode_fields(header.rest), LAMBDA transaction :
    IF transaction.rest = <<>>
    THEN IF Len(header.rest) # header.val.payload_length
         THEN Err("UnexpectedLength", transaction.rest)
         ELSE Ok(transaction.val, transaction.rest)
    ELSE
    Try(UintDecode(transaction.rest, 8), LAMBDA chain_id :
    Try(UintDecode(chain_id.rest, 32), LAMBDA r :
    Try(UintDecode(r.rest, 32), LAMBDA s :
    IF Len(header.rest) - Len(s.rest) # header.val.payload_length
    THEN Err("UnexpectedLength", s.rest)
    ELSE Ok([transaction.val EXCEPT !.chain_id = Some(chain_id.val)], s.rest))))))

\* serde_bincode_compat::TxLegacy<'a>; input is a Cow of the bytes
Borrowed(x) == [cow |-> "Borrowed", bytes |-> x]
into_owned(c) == c.bytes

compat_from(value) ==
    [chain_id |-> value.chain_id,
     nonce |-> value.nonce,
     gas_price |-> value.gas_price,
     gas_limit |-> value.gas_limit,
     to |-> value.to,
     value |-> value.value,
     input |-> Borrowed(value.input)]

\* variant of the conversion back that leaves chain_id at its default
TxLegacy_from_compat_default_chain_id(value) ==
    TxLegacy(None, value.nonce, value.gas_price, value.gas_limit, value.to, value.value,
             into_owned(value.input))

TxLegacy_from_compat(value) ==
    [chain_id |-> value.chain_id,
     nonce |-> value.nonce,
     gas_price |-> value.gas_price,
     gas_limit |-> value.gas_limit,
     to |-> value.to,
     value |-> value.value,
     input |-> into_owned(value.input)]

(***************************************************************************)
(* alloy_primitives: Bloom, Log; alloy_rlp: Vec<T>                         *)
(***************************************************************************)
BLOOM_SIZE_BYTES == 256
B256_LEN == 32

ZeroBloom == Fill(BLOOM_SIZE_BYTES, 0)

RECURSIVE WeightedSum(_, _)
WeightedSum(bytes, w) ==
    IF bytes = <<>> THEN 0 ELSE bytes[1] * w + WeightedSum(Tail(bytes), w + 1)

\* byte i (0..5) of the digest that selects the bloom bits of an input; a fixed
\* deterministic stand-in for the leading bytes of keccak256(input)
DigestByte(input, i) == (WeightedSum(input, i + 1) * 31 + 7 * i + Len(input)) % 256

Pow2(k) == CASE k = 0 -> 1 [] k = 1 -> 2 [] k = 2 -> 4 [] k = 3 -> 8
             [] k = 4 -> 16 [] k = 5 -> 32 [] k = 6 -> 64 [] k = 7 -> 128

OrBit(byte, k) == IF (byte \div Pow2(k)) % 2 = 1 THEN byte ELSE byte + Pow2(k)

\* one of the three bit positions (i = 0, 2, 4) of Bloom::accrue
BloomBit(input, i) == (DigestByte(input, i + 1) + DigestByte(input, i) * 256) % 2048

SetBloomBit(bloom, bit) ==
    [bloom EXCEPT ![BLOOM_SIZE_BYTES - bit \div 8] = OrBit(@, bit % 8)]

\* Bloom::accrue(BloomInput::Raw(input))
BloomAccrue(bloom, input) ==
    SetBloomBit(SetBloomBit(SetBloomBit(bloom, BloomBit(input, 0)), BloomBit(input, 2)),
                BloomBit(input, 4))

RECURSIVE BloomAccrueAll(_, _)
BloomAccrueAll(bloom, inputs) ==
    IF inputs = <<>> THEN bloom
    ELSE BloomAccrueAll(BloomAccrue(bloom, inputs[1]), Tail(inputs))

\* Bloom::accrue_log: the address, then every topic
BloomAccrueLog(bloom, log) == BloomAccrueAll(BloomAccrue(bloom, log.address), log.topics)

Log(address, topics, data) == [address |-> address, topics |-> topics, data |-> data]

RECURSIVE ConcatEncoded(_, _)
\* concatenation of Enc(x) over the elements x of a sequence
ConcatEncoded(Enc(_), xs) ==
    IF xs = <<>> THEN <<>> ELSE Enc(xs[1]) \o ConcatEncoded(Enc, Tail(xs))

\* Vec<T>: a list header over the concatenated elements
VecEncode(Enc(_), xs) ==
    HeaderEncode(Header(TRUE, Len(ConcatEncoded(Enc, xs)))) \o ConcatEncoded(Enc, xs)

RECURSIVE DecodeElements(_, _, _)
\* elements decoded from a payload view until it is empty
DecodeElements(Dec(_), view, acc) ==
    IF view = <<>> THEN Ok(acc, view)
    ELSE Try(Dec(view), LAMBDA x : DecodeElements(Dec, x.rest, Append(acc, x.val)))

\* the elements are decoded from the payload slice; the cursor moves past the list
VecDecode(Dec(_), buf) ==
    Try(HeaderDecodeBytes(buf, TRUE), LAMBDA bytes :
    Try([DecodeElements(Dec, bytes.val, <<>>) EXCEPT !.rest = bytes.rest], LAMBDA elems :
    elems))

B256Decode(buf) == FixedBytesDecode(buf, B256_LEN)

LogEncode(log) ==
    LET payload == BytesEncode(log.address) \o VecEncode(BytesEncode, log.topics)
                       \o BytesEncode(log.data)
    IN  HeaderEncode(Header(TRUE, Len(payload))) \o payload

LogDecode(buf) ==
    Try(HeaderDecode(buf), LAMBDA h :
    Try(FixedBytesDecode(h.rest, ADDRESS_LEN), LAMBDA address :
    Try(VecDecode(B256Decode, address.rest), LAMBDA topics :
    Try(BytesDecode(topics.rest), LAMBDA data :
    IF h.val.payload_length # Len(h.rest) - Len(data.rest)
    THEN Err("Custom: did not consume exact payload", data.rest)
    ELSE Ok(Log(address.val, topics.val, data.val), data.rest)))))

(***************************************************************************)
(* receipts.rs: Eip658Value, Receipt, ReceiptWithBloom                     *)
(***************************************************************************)
Eip658(status) == [tag |-> "Eip658", status |-> status, root |-> <<>>]
PostState(root) == [tag |-> "PostState", status |-> FALSE, root |-> root]

Eip658ValueEncode(v) == IF v.tag = "Eip658" THEN BoolEncode(v.status) ELSE BytesEncode(v.root)

Eip658ValueDecode(buf) ==
    IF buf # <<>> /\ buf[1] = EMPTY_STRING_CODE + B256_LEN
    THEN Try(B256Decode(buf), LAMBDA h : Ok(PostState(h.val), h.rest))
    ELSE Try(BoolDecode(buf), LAMBDA b : Ok(Eip658(b.val), b.rest))

Receipt(status, cumulative_gas_used, logs) ==
    [status |-> status, cumulative_gas_used |-> cumulative_gas_used, logs |-> logs]

RECURSIVE BloomOfLogs(_, _)
BloomOfLogs(bloom, logs) ==
    IF logs = <<>> THEN bloom ELSE BloomOfLogs(BloomAccrueLog(bloom, logs[1]), Tail(logs))

bloom_slow(receipt) == BloomOfLogs(ZeroBloom, receipt.logs)

ReceiptWithBloom(receipt, logs_bloom) == [receipt |-> receipt, logs_bloom |-> logs_bloom]

\* variant of From<Receipt> that stores the default (all zero) filter
ReceiptWithBloom_from_default_bloom(receipt) == ReceiptWithBloom(receipt, ZeroBloom)

\* impl From<Receipt<T>> for ReceiptWithBloom<T>
ReceiptWithBloom_from(receipt) == ReceiptWithBloom(receipt, bloom_slow(receipt))

with_bloom(receipt) == ReceiptWithBloom_from(receipt)

ReceiptWithBloom_new(receipt, logs_bloom) == ReceiptWithBloom(receipt, logs_bloom)

\* TxReceipt::bloom and TxReceipt::bloom_cheap of ReceiptWithBloom
ReceiptWithBloom_bloom(this) == this.logs_bloom
ReceiptWithBloom_bloom_cheap(this) == Some(this.logs_bloom)

payload_len(this) ==
    Len(Eip658ValueEncode(this.receipt.status)) + UintLength(this.receipt.cumulative_gas_used)
        + BytesLength(this.logs_bloom) + Len(VecEncode(LogEncode, this.receipt.logs))

receipt_rlp_header(this) == Header(TRUE, payload_len(this))

encode_fields(this) ==
    HeaderEncode(receipt_rlp_header(this))
        \o Eip658ValueEncode(this.receipt.status)
        \o UintEncode(this.receipt.cumulative_gas_used)
        \o BytesEncode(this.logs_bloom)
        \o VecEncode(LogEncode, this.receipt.logs)

\* decode_receipt reads through a copy b of the caller's cursor: the caller's
\* cursor (rest) is where it was on every error and moves only on success
TryCopy(r, buf, K(_)) == IF r.ok THEN K(r) ELSE [r EXCEPT !.rest = buf]

\* variant of decode_receipt without the comparison of consumed and declared length
decode_receipt_no_length_check(buf) ==
    TryCopy(HeaderDecode(buf), buf, LAMBDA rlp_head :
    IF ~rlp_head.val.list THEN Err("UnexpectedString", buf) ELSE
    TryCopy(Eip658ValueDecode(rlp_head.rest), buf, LAMBDA success :
    TryCopy(UintDecode(success.rest, 16), buf, LAMBDA cumulative_gas_used :
    TryCopy(FixedBytesDecode(cumulative_gas_used.rest, BLOOM_SIZE_BYTES), buf, LAMBDA bloom :
    TryCopy(VecDecode(LogDecode, bloom.rest), buf, LAMBDA logs :
    Ok(ReceiptWithBloom(Receipt(success.val, cumulative_gas_used.val, logs.val), bloom.val),
       logs.rest))))))

\* variant of decode_receipt that drops the filter read from the wire
decode_receipt_default_bloom(buf) ==
    TryCopy(HeaderDecode(buf), buf, LAMBDA rlp_head :
    IF ~rlp_head.val.list THEN Err("UnexpectedString", buf) ELSE
    TryCopy(Eip658ValueDecode(rlp_head.rest), buf, LAMBDA success :
    TryCopy(UintDecode(success.rest, 16), buf, LAMBDA cumulative_gas_used :
    TryCopy(FixedBytesDecode(cumulative_gas_used.rest, BLOOM_SIZE_BYTES), buf, LAMBDA bloom :
    TryCopy(VecDecode(LogDecode, bloom.rest), buf, LAMBDA logs :
    IF Len(rlp_head.rest) - Len(logs.rest) # rlp_head.val.payload_length
    THEN ListLengthMismatch(rlp_head.val.payload_length,
                            Len(rlp_head.rest) - Len(logs.rest), buf)
    ELSE Ok(ReceiptWithBloom(Receipt(success.val, cumulative_gas_used.val, logs.val),
                             ZeroBloom),
            logs.rest))))))

\* variant of decode_receipt that reads through the caller's cursor instead of
\* a copy of it
decode_receipt_shared_cursor(buf) ==
    Try(HeaderDecode(buf), LAMBDA rlp_head :
    IF ~rlp_head.val.list THEN Err("UnexpectedString", rlp_head.rest) ELSE
    Try(Eip658ValueDecode(rlp_head.rest), LAMBDA success :
    Try(UintDecode(success.rest, 16), LAMBDA cumulative_gas_used :
    Try(FixedBytesDecode(cumulative_gas_used.rest, BLOOM_SIZE_BYTES), LAMBDA bloom :
    Try(VecDecode(LogDecode, bloom.rest), LAMBDA logs :
    IF Len(rlp_head.rest) - Len(logs.rest) # rlp_head.val.payload_length
    THEN ListLengthMismatch(rlp_head.val.payload_length,
                            Len(rlp_head.rest) - Len(logs.rest), logs.rest)
    ELSE Ok(ReceiptWithBloom(Receipt(success.val, cumulative_gas_used.val, logs.val),
                             bloom.val),
            logs.rest))))))

\* started_len is Len(rlp_head.rest); consumed is started_len - Len(logs.rest)
decode_receipt(buf) ==
    TryCopy(HeaderDecode(buf), buf, LAMBDA rlp_head :
    IF ~rlp_head.val.list THEN Err("UnexpectedString", buf) ELSE
    TryCopy(Eip658ValueDecode(rlp_head.rest), buf, LAMBDA success :
    TryCopy(UintDecode(success.rest, 16), buf, LAMBDA cumulative_gas_used :
    TryCopy(FixedBytesDecode(cumulative_gas_used.rest, BLOOM_SIZE_BYTES), buf, LAMBDA bloom :
    TryCopy(VecDecode(LogDecode, bloom.rest), buf, LAMBDA logs :
    IF Len(rlp_head.rest) - Len(logs.rest) # rlp_head.val.payload_length
    THEN ListLengthMismatch(rlp_head.val.payload_length,
                            Len(rlp_head.rest) - Len(logs.rest), buf)
    ELSE Ok(ReceiptWithBloom(Receipt(success.val, cumulative_gas_used.val, logs.val),
                             bloom.val),
            logs.rest))))))

ReceiptWithBloom_encode(this) == encode_fields(this)

ReceiptWithBloom_length(this) ==
    LET payload_length ==
            Len(Eip658ValueEncode(this.receipt.status))
                + UintLength(this.receipt.cumulative_gas_used)
                + BytesLength(this.logs_bloom)
                + Len(VecEncode(LogEncode, this.receipt.logs))
    IN  payload_length + length_of_length(payload_length)

ReceiptWithBloom_decode(buf) == decode_receipt(buf)

(***************************************************************************)
(* receipts.rs: impl Serialize for Receipt                                 *)
(***************************************************************************)
\* Eip658Value::is_eip658
is_eip658(v) == v.tag = "Eip658"

\* variant of serialize that always names the first field "status"
Receipt_serialize_status_key(this) ==
    [name |-> "Receipt", len |-> 3,
     fields |-> <<[key |-> "status", value |-> this.status],
                  [key |-> "cumulativeGasUsed", value |-> this.cumulative_gas_used],
                  [key |-> "logs", value |-> this.logs]>>]

\* serialize_struct("Receipt", 3) followed by three serialize_field calls: the
\* serializer receives the fields in call order
Receipt_serialize(this) ==
    LET key == IF is_eip658(this.status) THEN "status" ELSE "root"
    IN  [name |-> "Receipt", len |-> 3,
         fields |-> <<[key |-> key, value |-> this.status],
                      [key |-> "cumulativeGasUsed", value |-> this.cumulative_gas_used],
                      [key |-> "logs", value |-> this.logs]>>]

(***************************************************************************)
(* receipts.rs: Receipts                                                   *)
(***************************************************************************)
Receipts(receipt_vec) == [receipt_vec |-> receipt_vec]

Receipts_default == Receipts(<<>>)

Receipts_len(this) == Len(this.receipt_vec)

Receipts_is_empty(this) == this.receipt_vec = <<>>

\* variant of push that inserts the block at outer index 0
Receipts_push_front(this, receipts) == Receipts(<<receipts>> \o this.receipt_vec)

Receipts_push(this, receipts) == Receipts(Append(this.receipt_vec, receipts))

\* slice::get with a zero-based index
Get(v, index) == IF index < Len(v) THEN Some(v[index + 1]) ELSE None

\* a reference &T to the element at position pos of block number block
Ref(block, pos) == [block |-> block, pos |-> pos]
Deref(this, r) == this.receipt_vec[r.block + 1][r.pos + 1]

\* receipts.iter().collect::<Vec<&T>>() over block number index
CollectRefs(this, index) ==
    [j \in 1..Len(this.receipt_vec[index + 1]) |-> Ref(index, j - 1)]

\* the caller's closure f: "count" yields the number of references it is
\* handed, "hash" a digest of the receipts they point to
CallF(f, this, refs) ==
    IF f = "count" THEN Len(refs)
    ELSE keccak256([j \in 1..Len(refs) |-> Deref(this, refs[j])])

\* variant of root_slow that reads the block with a one-based index
root_slow_one_based(this, index, f) ==
    IF index >= 1 /\ index <= Len(this.receipt_vec)
    THEN [ret |-> Some(CallF(f, this, CollectRefs(this, index - 1))),
          invoked |-> <<CollectRefs(this, index - 1)>>]
    ELSE [ret |-> None, invoked |-> <<>>]

\* ret is the Option returned, invoked the arguments of every call made to f
root_slow(this, index, f) ==
    IF Get(this.receipt_vec, index) # None
    THEN [ret |-> Some(CallF(f, this, CollectRefs(this, index))),
          invoked |-> <<CollectRefs(this, index)>>]
    ELSE [ret |-> None, invoked |-> <<>>]

\* impl From<Vec<T>> for Receipts<T>
Receipts_from(block_receipts) == Receipts(<<block_receipts>>)

\* impl FromIterator<Vec<T>> for Receipts<T>
Receipts_from_iter(iter) == Receipts(iter)

(***************************************************************************)
(* k256, const-hex, alloy_signer: what private_key.rs builds on           *)
(***************************************************************************)
FIELD_BYTES == 32

\* order of the secp256k1 group, big-endian
ORDER ==
    Fill(15, 255) \o <<254, 186, 174, 220, 230, 175, 72, 160, 59, 191, 210, 94, 140,
                       208, 54, 65, 65>>

\* a < b for big-endian byte strings of equal length
RECURSIVE LessBE(_, _)
LessBE(a, b) ==
    IF a = <<>> THEN FALSE
    ELSE IF a[1] # b[1] THEN a[1] < b[1]
    ELSE LessBE(Tail(a), Tail(b))

\* the integer a byte string denotes, as its digits without leading zeros
RECURSIVE Scalar(_)
Scalar(bytes) ==
    IF bytes # <<>> /\ bytes[1] = 0 THEN Scalar(Tail(bytes)) ELSE bytes

\* Scalar::to_bytes: 32 big-endian bytes
ScalarToBytes(x) == Fill(FIELD_BYTES - Len(x), 0) \o x

WOk(v) == [ok |-> TRUE, val |-> v, err |-> ""]
WErr(e) == [ok |-> FALSE, val |-> <<>>, err |-> e]
WMap(r, F(_)) == IF r.ok THEN WOk(F(r.val)) ELSE r

\* SigningKey::from_bytes: NonZeroScalar::from_repr rejects zero and values
\* that are not below the group order
SigningKey_from_bytes(bytes) ==
    IF LessBE(bytes, ORDER) /\ Scalar(bytes) # <<>>
    THEN WOk([secret_scalar |-> Scalar(bytes)])
    ELSE WErr("ecdsa::Error")

\* SigningKey::from_slice, for slices of 32 bytes
SigningKey_from_slice(bytes) == SigningKey_from_bytes(bytes)

SigningKey_to_bytes(signer) == ScalarToBytes(signer.secret_scalar)

\* alloy_signer::utils::secret_key_to_address: the last 20 bytes of the digest
\* of the public key; an ideal one-way function of the secret scalar
secret_key_to_address(signer) == [address_of |-> signer.secret_scalar]

ZeroAddress == Fill(ADDRESS_LEN, 0)

HexDigits == <<"0", "1", "2", "3", "4", "5", "6", "7", "8", "9",
               "a", "b", "c", "d", "e", "f">>
HexDigitsUpper == <<"0", "1", "2", "3", "4", "5", "6", "7", "8", "9",
                    "A", "B", "C", "D", "E", "F">>

IsHexDigit(c) == \E i \in 1..16 : HexDigits[i] = c \/ HexDigitsUpper[i] = c
HexValue(c) == (CHOOSE i \in 1..16 : HexDigits[i] = c \/ HexDigitsUpper[i] = c) - 1

\* const_hex: an optional "0x" prefix is skipped
strip_prefix(src) ==
    IF Len(src) >= 2 /\ src[1] = "0" /\ src[2] = "x" THEN Drop(src, 2) ELSE src

\* const_hex::decode_to_array::<_, N>; a string is a sequence of characters
decode_to_array(src, N) ==
    IF Len(src) % 2 # 0 THEN WErr("WalletError::HexError: OddLength")
    ELSE LET input == strip_prefix(src)
         IN  IF Len(input) \div 2 # N THEN WErr("WalletError::HexError: InvalidStringLength")
             ELSE IF \E i \in 1..Len(input) : ~IsHexDigit(input[i])
             THEN WErr("WalletError::HexError: InvalidHexCharacter")
             ELSE WOk([i \in 1..N |->
                         16 * HexValue(input[2 * i - 1]) + HexValue(input[2 * i])])

\* From<ecdsa::Error> for WalletError (the ? operator in a WalletError function)
WalletError_from(r) == IF r.ok THEN r ELSE WErr("WalletError::EcdsaError")

(***************************************************************************)
(* private_key.rs: Wallet<SigningKey>                                      *)
(***************************************************************************)
\* Wallet::new_with_signer
new_with_signer(signer, address, chain_id) ==
    [signer |-> signer, address |-> address, chain_id |-> chain_id]

\* Signer::set_chain_id
set_chain_id(this, chain_id) == [this EXCEPT !.chain_id = chain_id]

\* variant of from_signing_key that stores the zero address
from_signing_key_zero_address(signer) == new_with_signer(signer, ZeroAddress, None)

from_signing_key(signer) ==
    LET address == secret_key_to_address(signer)
    IN  new_with_signer(signer, address, None)

\* variant of from_field_bytes that falls back to the key 1 when the bytes are rejected
from_field_bytes_default_key(bytes) ==
    IF SigningKey_from_bytes(bytes).ok
    THEN WMap(SigningKey_from_bytes(bytes), from_signing_key)
    ELSE WOk(from_signing_key([secret_scalar |-> <<1>>]))

from_field_bytes(bytes) == WMap(SigningKey_from_bytes(bytes), from_signing_key)

from_bytes(bytes) == from_field_bytes(bytes)

from_slice(bytes) == WMap(SigningKey_from_slice(bytes), from_signing_key)

\* rng is the signing key SigningKey::random draws from the generator
random_with(rng) == from_signing_key(rng)

to_field_bytes(this) == SigningKey_to_bytes(this.signer)

to_bytes(this) == to_field_bytes(this)

\* secret is what eth_keystore returned: an error or the 32 secret bytes
new_keystore(secret) ==
    IF ~secret.ok THEN secret ELSE WalletError_from(from_slice(secret.val))

decrypt_keystore(secret) ==
    IF ~secret.ok THEN secret ELSE WalletError_from(from_slice(secret.val))

\* stored is the outcome of eth_keystore::encrypt_key, pk the caller's key bytes
encrypt_keystore(stored, pk) ==
    IF ~stored.ok THEN stored ELSE WalletError_from(from_slice(pk))

\* variant of eq that does not look at chain_id
Wallet_eq_without_chain_id(this, other) ==
    /\ SigningKey_to_bytes(this.signer) = SigningKey_to_bytes(other.signer)
    /\ this.address = other.address

\* impl PartialEq for Wallet<SigningKey>
Wallet_eq(this, other) ==
    /\ SigningKey_to_bytes(this.signer) = SigningKey_to_bytes(other.signer)
    /\ this.address = other.address
    /\ this.chain_id = other.chain_id

\* impl From<SigningKey> and impl From<K256SecretKey> for Wallet<SigningKey>
Wallet_from_signing_key(value) == from_signing_key(value)
Wallet_from_secret_key(value) == from_signing_key(value)

\* impl FromStr for Wallet<SigningKey>
from_str(src) ==
    LET array == decode_to_array(src, FIELD_BYTES)
    IN  IF ~array.ok THEN array ELSE WalletError_from(from_slice(array.val))

(***************************************************************************)
(* Bounds and input domains                                                *)
(***************************************************************************)
MaxChainId == 2
MaxInputLen == 2
LongInputLen == 60
MaxLogs == 2
MaxTopics == 1

ChainIds == {None} \cup {Some(c) : c \in 1..MaxChainId}
Nonces == {0, 300}
Kinds == {Create, Call(Fill(ADDRESS_LEN, 170))}
Inputs == {Fill(n, 171) : n \in 0..MaxInputLen} \cup {<<5>>, Fill(LongInputLen, 1)}

TxValues ==
    {TxLegacy(c, n, 128, 21000, k, 1000, i) :
        c \in ChainIds, n \in Nonces, k \in Kinds, i \in Inputs}

\* the EIP-155 variant holds any explicit v: the value 1 stands for those below 35
Parities ==
    {ParityParity(y) : y \in BOOLEAN} \cup {ParityNonEip155(y) : y \in BOOLEAN}
        \cup {ParityEip155(35 + 2 * c + b) : c \in 1..MaxChainId, b \in {0, 1}}
        \cup {ParityEip155(1)}

SigValues == {Signature(p, 40000, 7) : p \in Parities}

\* hand-built decoder inputs: the declared payload length is off by delta, the
\* v field is any scalar, bytes may follow the list, the header may be a string
Deltas == {-1, 0, 1}
CraftV == {0, 1, 27, 28, 30, 37, 38}
Trails == {<<>>, <<128>>}

TxCrafts ==
    {[list |-> TRUE, delta |-> d, v |-> vv, trail |-> t] :
        d \in Deltas, vv \in CraftV, t \in Trails}
        \cup {[list |-> FALSE, delta |-> 0, v |-> 27, trail |-> <<>>]}

\* hand-built inputs of the unsigned decoder: with or without three scalars
\* after the six fields
UnsignedCrafts ==
    {[list |-> l, delta |-> d, tail |-> t, trail |-> <<>>] :
        l \in BOOLEAN, d \in Deltas, t \in BOOLEAN}
        \cup {[list |-> TRUE, delta |-> 0, tail |-> FALSE, trail |-> <<128>>]}

\* bytes that follow an encoded value in the caller's buffer: one scalar,
\* three scalars, an empty list
Rests == {<<128>>, <<1, 128, 128>>, <<192>>}

\* hand-built inputs of the receipt decoder; the status field may be the
\* scalar 2, which is neither a boolean nor a 32-byte root
ReceiptCrafts ==
    {[list |-> TRUE, delta |-> d, trail |-> t, status |-> "kept"] :
        d \in Deltas, t \in Trails}
        \cup {[list |-> FALSE, delta |-> 0, trail |-> <<>>, status |-> "kept"]}
        \cup {[list |-> TRUE, delta |-> 0, trail |-> t, status |-> "invalid"] : t \in Trails}

LogValues ==
    {Log(Fill(ADDRESS_LEN, 17), [i \in 1..n |-> Fill(B256_LEN, i)], Fill(n, 9)) :
        n \in 0..MaxTopics}

RECURSIVE SeqsUpTo(_, _)
SeqsUpTo(S, n) ==
    IF n = 0 THEN {<<>>}
    ELSE SeqsUpTo(S, n - 1) \cup {Append(q, x) : q \in {r \in SeqsUpTo(S, n - 1) : Len(r) = n - 1}, x \in S}

Statuses == {Eip658(TRUE), Eip658(FALSE), PostState(Fill(B256_LEN, 238))}

ReceiptValues ==
    {Receipt(st, g, ls) : st \in Statuses, g \in {0, 21000}, ls \in SeqsUpTo(LogValues, MaxLogs)}

BloomArgs ==
    {ZeroBloom, SetBloomBit(ZeroBloom, 3),
     bloom_slow(Receipt(Eip658(TRUE), 0, <<Log(Fill(ADDRESS_LEN, 17), <<>>, <<>>)>>))}

MaxBlocks == 2
MaxBlockLen == 2

\* receipts stored in a Receipts collection, the blocks and the iterators of blocks
Items == {Receipt(Eip658(TRUE), g, <<>>) : g \in {1, 2}}
Blocks == SeqsUpTo(Items, MaxBlockLen)
Fns == {"count", "hash"}

\* 32-byte inputs of the wallet constructors: two small keys, a key with
\* letters in its hex form, zero, the group order and its neighbours, all ones
Key1 == Fill(31, 0) \o <<1>>
Key2 == Fill(31, 0) \o <<2>>
KeyAB == Fill(31, 171) \o <<205>>
OrderMinus1 == Take(ORDER, 31) \o <<64>>
Scalars == {Key1, Key2, KeyAB, Fill(FIELD_BYTES, 0), OrderMinus1, ORDER, Fill(FIELD_BYTES, 255)}
SigningKeys == {[secret_scalar |-> Scalar(k)] : k \in {Key1, Key2}}

ToHex(bytes, digits) ==
    [i \in 1..(2 * Len(bytes)) |->
        IF i % 2 = 1 THEN digits[(bytes[(i + 1) \div 2] \div 16) + 1]
        ELSE digits[(bytes[i \div 2] % 16) + 1]]

\* strings handed to from_str, each with the 32 bytes it was written from
HexInputs ==
    {[key |-> k, src |-> p \o ToHex(k, HexDigits)] :
        k \in {Key1, KeyAB, Fill(FIELD_BYTES, 0)}, p \in {<<>>, <<"0", "x">>}}
        \cup {[key |-> KeyAB, src |-> <<"0", "x">> \o ToHex(KeyAB, HexDigitsUpper)],
              [key |-> <<>>, src |-> ToHex(Take(Key1, 31), HexDigits)],
              [key |-> <<>>, src |-> Tail(ToHex(Key1, HexDigits))],
              [key |-> <<>>, src |-> <<"0", "z">> \o ToHex(Key1, HexDigits)],
              [key |-> <<>>, src |-> <<"g">> \o Tail(ToHex(Key1, HexDigits))]}

\* what eth_keystore hands back: a failure or the secret bytes
KeystoreOutcomes == {WErr("WalletError::EthKeystoreError")}
                        \cup {WOk(k) : k \in {Key1, Fill(FIELD_BYTES, 0)}}
WalletChainIds == {1, 2}
NoWallet == [ctor |-> "none", key |-> <<>>, res |-> WErr("")]

DefaultTx == TxLegacy(None, 0, 0, 0, Create, 0, <<>>)
DefaultSig == Signature(ParityParity(FALSE), 0, 0)
DefaultReceipt == Receipt(Eip658(FALSE), 0, <<>>)

(***************************************************************************)
(* State                                                                   *)
(***************************************************************************)
VARIABLES
    kind,       \* which type this run exercises: "tx" or "receipt"
    pc,         \* position in the run
    tx, sig,    \* the TxLegacy and the Signature handed to the operations
    signed,     \* Signed<TxLegacy> returned by into_signed
    out,        \* bytes written by rlp_encode_signed(tx, sig)
    hash,       \* tx_hash_with_type(tx, sig)
    lens,       \* the lengths predicted for the signed encoding of (tx, sig)
    compat,     \* the bincode-compatible mirror of tx
    restored,   \* the TxLegacy converted back from compat
    receipt,    \* the Receipt handed to the constructors
    how,        \* constructor that built rwb
    bloom_arg,  \* the filter handed to ReceiptWithBloom::new
    rwb,        \* the ReceiptWithBloom built
    cached,     \* bloom() read from rwb
    fresh,      \* bloom_slow() recomputed over rwb.receipt
    buf,        \* input of the decoder
    origin,     \* where buf came from: "encoded", "truncated", "crafted"
    res,        \* result of the decoder
    ser,        \* what Receipt::serialize handed to the serializer
    receipts,   \* the Receipts collection
    root,       \* the last root_slow call: index, f, returned value, calls of f
    track,      \* how receipts came to be: constructor, the collection it
                \* returned, the blocks pushed since, the collection before
                \* the last push
    wallet,     \* first wallet built: constructor, the 32 bytes given, result
    other,      \* second wallet built
    equal       \* wallet == other

vars == <<kind, pc, tx, sig, signed, out, hash, lens, compat, restored, receipt, how, bloom_arg, rwb, cached, fresh,
          buf, origin, res, ser, receipts, root, track, wallet, other, equal>>

txVars == <<tx, sig, signed, out, hash, lens, compat, restored>>
receiptVars == <<receipt, how, bloom_arg, rwb, cached, fresh>>
wireVars == <<buf, origin, res>>
collVars == <<receipts, root, track>>
walletVars == <<wallet, other, equal>>

\* a collection as its constructor returned it, nothing pushed yet
Constructed(ctor, start) == [ctor |-> ctor, start |-> start, pushed |-> <<>>, before |-> None]

InitTx ==
    /\ kind = "tx"
    /\ tx \in TxValues
    /\ sig \in SigValues
    /\ receipt = DefaultReceipt

InitReceipt ==
    /\ kind = "receipt"
    /\ tx = DefaultTx
    /\ sig = DefaultSig
    /\ receipt \in ReceiptValues

InitReceipts ==
    /\ kind = "receipts"
    /\ tx = DefaultTx
    /\ sig = DefaultSig
    /\ receipt = DefaultReceipt

InitWallet ==
    /\ kind = "wallet"
    /\ tx = DefaultTx
    /\ sig = DefaultSig
    /\ receipt = DefaultReceipt

Init ==
    /\ InitTx \/ InitReceipt \/ InitReceipts \/ InitWallet
    /\ pc = "new"
    /\ signed = None /\ out = <<>> /\ hash = None /\ lens = None
    /\ compat = None /\ restored = None
    /\ how = "none" /\ bloom_arg = None /\ rwb = None /\ cached = None /\ fresh = None
    /\ buf = <<>> /\ origin = "none" /\ res = None
    /\ ser = None
    /\ receipts = Receipts_default /\ root = None
    /\ track = Constructed("default", Receipts_default)
    /\ wallet = NoWallet /\ other = NoWallet /\ equal = None

(***************************************************************************)
(* Legacy transaction operations                                           *)
(***************************************************************************)
IntoSigned ==
    /\ kind = "tx" /\ pc = "new"
    /\ signed' = into_signed(tx, sig)
    /\ pc' = "signed"
    /\ UNCHANGED <<kind, walletVars, collVars, ser, tx, sig, out, hash, lens, compat, restored, receiptVars, wireVars>>

EncodeSigned ==
    /\ kind = "tx" /\ pc = "signed"
    /\ out' = rlp_encode_signed(tx, sig)
    /\ pc' = "encoded"
    /\ UNCHANGED <<kind, walletVars, collVars, ser, tx, sig, signed, hash, lens, compat, restored, receiptVars, wireVars>>

TxHash ==
    /\ kind = "tx" /\ pc = "encoded"
    /\ hash' = Some(tx_hash_with_type(tx, sig))
    /\ pc' = "hashed"
    /\ UNCHANGED <<kind, walletVars, collVars, ser, tx, sig, signed, out, lens, compat, restored, receiptVars, wireVars>>

\* the lengths of the signed encoding are asked for after it was written
SignedLengths ==
    /\ kind = "tx" /\ pc = "encoded"
    /\ lens' = Some([rlp |-> rlp_encoded_length_with_signature(tx, sig),
                     eip2718 |-> eip2718_encoded_length(tx, sig),
                     network |-> network_encoded_length(tx, sig),
                     header |-> network_header(tx, sig)])
    /\ pc' = "measured"
    /\ UNCHANGED <<kind, walletVars, collVars, ser, tx, sig, signed, out, hash, compat, restored,
                   receiptVars, wireVars>>

\* the signed transaction is written to the wire
EncodeStored ==
    /\ kind = "tx" /\ pc = "hashed"
    /\ buf' = rlp_encode_signed(signed.tx, signed.signature)
    /\ origin' = "encoded"
    /\ pc' = "wire"
    /\ UNCHANGED <<kind, walletVars, collVars, ser, txVars, receiptVars, res>>

CraftTx ==
    /\ kind = "tx" /\ pc = "new"
    /\ \E c \in TxCrafts :
         LET payload == rlp_encode_fields(tx) \o UintEncode(c.v) \o UintEncode(sig.r)
                            \o UintEncode(sig.s)
         IN  buf' = HeaderEncode(Header(c.list, Len(payload) + c.delta)) \o payload \o c.trail
    /\ origin' = "crafted"
    /\ pc' = "wire"
    /\ UNCHANGED <<kind, walletVars, collVars, ser, txVars, receiptVars, res>>

DecodeSigned ==
    /\ kind = "tx" /\ pc = "wire"
    /\ res' = rlp_decode_with_signature(buf)
    /\ pc' = "decoded"
    /\ UNCHANGED <<kind, walletVars, collVars, ser, txVars, receiptVars, buf, origin>>

\* the final byte of an encoding is lost
Truncate ==
    /\ pc = "wire" /\ origin = "encoded"
    /\ buf' = Take(buf, Len(buf) - 1)
    /\ origin' = "truncated"
    /\ UNCHANGED <<kind, walletVars, collVars, ser, pc, txVars, receiptVars, res>>

\* the unsigned transaction is written to the wire
EncodeForSigning ==
    /\ kind = "tx" /\ pc = "new"
    /\ buf' = TxLegacy_encode(tx)
    /\ origin' = "signing"
    /\ pc' = "wire_unsigned"
    /\ UNCHANGED <<kind, walletVars, collVars, ser, txVars, receiptVars, res>>

\* the unsigned transaction is written to the wire and other bytes follow it
EncodeFollowed ==
    /\ kind = "tx" /\ pc = "new"
    /\ \E rest \in Rests : buf' = TxLegacy_encode(tx) \o rest
    /\ origin' = "followed"
    /\ pc' = "wire_unsigned"
    /\ UNCHANGED <<kind, walletVars, collVars, ser, txVars, receiptVars, res>>

CraftUnsigned ==
    /\ kind = "tx" /\ pc = "new"
    /\ \E c \in UnsignedCrafts :
         LET payload == rlp_encode_fields(tx)
                            \o (IF c.tail
                                THEN UintEncode(5) \o UintEncode(sig.r) \o UintEncode(sig.s)
                                ELSE <<>>)
         IN  buf' = HeaderEncode(Header(c.list, Len(payload) + c.delta)) \o payload \o c.trail
    /\ origin' = "crafted"
    /\ pc' = "wire_unsigned"
    /\ UNCHANGED <<kind, walletVars, collVars, ser, txVars, receiptVars, res>>

DecodeUnsigned ==
    /\ kind = "tx" /\ pc = "wire_unsigned"
    /\ res' = TxLegacy_decode(buf)
    /\ pc' = "decoded_unsigned"
    /\ UNCHANGED <<kind, walletVars, collVars, ser, txVars, receiptVars, buf, origin>>

\* the transaction is converted to its bincode-compatible mirror, and back
Snapshot ==
    /\ kind = "tx" /\ pc = "new"
    /\ compat' = Some(compat_from(tx))
    /\ pc' = "snapshot"
    /\ UNCHANGED <<kind, walletVars, collVars, ser, tx, sig, signed, out, hash, lens, restored,
                   receiptVars, wireVars>>

Restore ==
    /\ kind = "tx" /\ pc = "snapshot"
    /\ restored' = Some(TxLegacy_from_compat(compat[1]))
    /\ pc' = "restored"
    /\ UNCHANGED <<kind, walletVars, collVars, ser, tx, sig, signed, out, hash, lens, compat,
                   receiptVars, wireVars>>

(***************************************************************************)
(* Receipt operations                                                      *)
(***************************************************************************)
FromReceipt ==
    /\ kind = "receipt" /\ pc = "new"
    /\ rwb' = ReceiptWithBloom_from(receipt)
    /\ how' = "from"
    /\ pc' = "built"
    /\ UNCHANGED <<kind, walletVars, collVars, ser, txVars, receipt, bloom_arg, cached, fresh, wireVars>>

WithBloom ==
    /\ kind = "receipt" /\ pc = "new"
    /\ rwb' = with_bloom(receipt)
    /\ how' = "with_bloom"
    /\ pc' = "built"
    /\ UNCHANGED <<kind, walletVars, collVars, ser, txVars, receipt, bloom_arg, cached, fresh, wireVars>>

New ==
    /\ kind = "receipt" /\ pc = "new"
    /\ \E bl \in BloomArgs :
         /\ bloom_arg' = bl
         /\ rwb' = ReceiptWithBloom_new(receipt, bl)
    /\ how' = "new"
    /\ pc' = "built"
    /\ UNCHANGED <<kind, walletVars, collVars, ser, txVars, receipt, cached, fresh, wireVars>>

\* the cached filter is read and the filter is recomputed from the logs
ReadBloom ==
    /\ kind = "receipt" /\ pc = "built"
    /\ cached' = ReceiptWithBloom_bloom(rwb)
    /\ fresh' = bloom_slow(rwb.receipt)
    /\ pc' = "read"
    /\ UNCHANGED <<kind, walletVars, collVars, ser, txVars, receipt, how, bloom_arg, rwb, wireVars>>

EncodeReceipt ==
    /\ kind = "receipt" /\ pc = "read"
    /\ buf' = ReceiptWithBloom_encode(rwb)
    /\ origin' = "encoded"
    /\ pc' = "wire"
    /\ UNCHANGED <<kind, walletVars, collVars, ser, txVars, receiptVars, res>>

CraftReceipt ==
    /\ kind = "receipt" /\ pc = "read"
    /\ \E c \in ReceiptCrafts :
         LET payload == (IF c.status = "invalid"
                             THEN <<2>>
                             ELSE Eip658ValueEncode(rwb.receipt.status))
                            \o UintEncode(rwb.receipt.cumulative_gas_used)
                            \o BytesEncode(rwb.logs_bloom)
                            \o VecEncode(LogEncode, rwb.receipt.logs)
         IN  buf' = HeaderEncode(Header(c.list, Len(payload) + c.delta)) \o payload \o c.trail
    /\ origin' = "crafted"
    /\ pc' = "wire"
    /\ UNCHANGED <<kind, walletVars, collVars, ser, txVars, receiptVars, res>>

DecodeReceipt ==
    /\ kind = "receipt" /\ pc = "wire"
    /\ res' = ReceiptWithBloom_decode(buf)
    /\ pc' = "decoded"
    /\ UNCHANGED <<kind, walletVars, collVars, ser, txVars, receiptVars, buf, origin>>

\* a Receipt is serialized
Serialize ==
    /\ kind = "receipt" /\ pc = "new"
    /\ ser' = Some(Receipt_serialize(receipt))
    /\ pc' = "serialized"
    /\ UNCHANGED <<kind, walletVars, collVars, txVars, receiptVars, wireVars>>

(***************************************************************************)
(* Receipts collection operations                                          *)
(***************************************************************************)
ReceiptsFrom ==
    /\ kind = "receipts" /\ pc = "new"
    /\ \E block_receipts \in Blocks :
         /\ receipts' = Receipts_from(block_receipts)
         /\ track' = Constructed("from", Receipts_from(block_receipts))
    /\ pc' = "built"
    /\ UNCHANGED <<kind, walletVars, root, ser, txVars, receiptVars, wireVars>>

ReceiptsFromIter ==
    /\ kind = "receipts" /\ pc = "new"
    /\ \E iter \in SeqsUpTo(Blocks, MaxBlocks) :
         /\ receipts' = Receipts_from_iter(iter)
         /\ track' = Constructed("from_iter", Receipts_from_iter(iter))
    /\ pc' = "built"
    /\ UNCHANGED <<kind, walletVars, root, ser, txVars, receiptVars, wireVars>>

Push ==
    /\ kind = "receipts" /\ pc \in {"new", "built"}
    /\ Receipts_len(receipts) < MaxBlocks
    /\ \E block_receipts \in Blocks :
         /\ receipts' = Receipts_push(receipts, block_receipts)
         /\ track' = [track EXCEPT !.pushed = Append(@, block_receipts),
                                   !.before = Some(receipts)]
    /\ pc' = "built"
    /\ UNCHANGED <<kind, walletVars, root, ser, txVars, receiptVars, wireVars>>

RootSlow ==
    /\ kind = "receipts" /\ pc \in {"new", "built"}
    /\ \E index \in 0..(MaxBlocks + 1), f \in Fns :
         root' = Some([index |-> index, f |-> f] @@ root_slow(receipts, index, f))
    /\ pc' = "rooted"
    /\ UNCHANGED <<kind, walletVars, receipts, track, ser, txVars, receiptVars, wireVars>>

(***************************************************************************)
(* Wallet operations                                                       *)
(***************************************************************************)
notWallet == <<kind, collVars, ser, txVars, receiptVars, wireVars>>

\* the value a constructor returned becomes the first wallet of the run, or
\* the second one when the first is already there
Built(ctor, key, r) ==
    /\ kind = "wallet"
    /\ \/ /\ pc = "new"
          /\ wallet' = [ctor |-> ctor, key |-> key, res |-> r]
          /\ pc' = "one"
          /\ UNCHANGED other
       \/ /\ pc = "one"
          /\ other' = [ctor |-> ctor, key |-> key, res |-> r]
          /\ pc' = "two"
          /\ UNCHANGED wallet
    /\ UNCHANGED <<equal, notWallet>>

FromSigningKey ==
    \E signer \in SigningKeys :
        \/ Built("from_signing_key", SigningKey_to_bytes(signer), WOk(from_signing_key(signer)))
        \/ Built("From<SigningKey>", SigningKey_to_bytes(signer),
                 WOk(Wallet_from_signing_key(signer)))
        \/ Built("From<SecretKey>", SigningKey_to_bytes(signer),
                 WOk(Wallet_from_secret_key(signer)))

FromBytes == \E bytes \in Scalars : Built("from_bytes", bytes, from_bytes(bytes))

FromFieldBytes == \E bytes \in Scalars : Built("from_field_bytes", bytes, from_field_bytes(bytes))

FromSlice == \E bytes \in Scalars : Built("from_slice", bytes, from_slice(bytes))

\* random and random_with: the generator yields a signing key
RandomWith ==
    \E rng \in SigningKeys : Built("random_with", SigningKey_to_bytes(rng), WOk(random_with(rng)))

NewKeystore ==
    \E secret \in KeystoreOutcomes : Built("new_keystore", secret.val, new_keystore(secret))

DecryptKeystore ==
    \E secret \in KeystoreOutcomes : Built("decrypt_keystore", secret.val, decrypt_keystore(secret))

EncryptKeystore ==
    \E stored \in {WOk(<<>>), WErr("WalletError::EthKeystoreError")}, pk \in {Key2, ORDER} :
        Built("encrypt_keystore", pk, encrypt_keystore(stored, pk))

FromStr == \E h \in HexInputs : Built("from_str", h.key, from_str(h.src))

SetChainId ==
    /\ kind = "wallet" /\ pc = "two"
    /\ \/ /\ wallet.res.ok /\ wallet.res.val.chain_id = None
          /\ wallet' = [wallet EXCEPT !.res.val = set_chain_id(@, Some(1))]
          /\ UNCHANGED other
       \/ /\ other.res.ok /\ other.res.val.chain_id = None
          /\ \E c \in WalletChainIds :
                other' = [other EXCEPT !.res.val = set_chain_id(@, Some(c))]
          /\ UNCHANGED wallet
    /\ UNCHANGED <<pc, equal, notWallet>>

Compare ==
    /\ kind = "wallet" /\ pc = "two"
    /\ wallet.res.ok /\ other.res.ok
    /\ equal' = Some(Wallet_eq(wallet.res.val, other.res.val))
    /\ pc' = "compared"
    /\ UNCHANGED <<wallet, other, notWallet>>

Next ==
    \/ IntoSigned \/ EncodeSigned \/ SignedLengths \/ TxHash \/ EncodeStored \/ CraftTx \/ DecodeSigned
    \/ Truncate \/ EncodeForSigning \/ EncodeFollowed \/ CraftUnsigned \/ DecodeUnsigned \/ Snapshot \/ Restore
    \/ FromReceipt \/ WithBloom \/ New \/ ReadBloom \/ EncodeReceipt \/ CraftReceipt
    \/ DecodeReceipt \/ Serialize
    \/ ReceiptsFrom \/ ReceiptsFromIter \/ Push \/ RootSlow
    \/ FromSigningKey \/ FromBytes \/ FromFieldBytes \/ FromSlice \/ RandomWith
    \/ NewKeystore \/ DecryptKeystore \/ EncryptKeystore \/ FromStr \/ SetChainId \/ Compare

Spec == Init /\ [][Next]_vars

(***************************************************************************)
(* Properties                                                              *)
(***************************************************************************)
TxRun == kind = "tx"
ReceiptRun == kind = "receipt"

\* C1: signed legacy round trip: decoding the bytes written for the signed
\* transaction returned by into_signed succeeds, returns its tx (every field,
\* chain_id included) and its signature, and consumes every byte written.
C1_SignedRoundTrip ==
    (TxRun /\ pc = "decoded" /\ origin = "encoded") =>
        /\ res.ok
        /\ res.val.tx = signed.tx
        /\ res.val.signature = signed.signature
        /\ res.rest = <<>>

\* C2: EIP-155 pairing on produced values: the signed transaction returned by
\* into_signed has chain_id Some(id) if and only if its stored parity is the
\* EIP-155 form of that id, and the raw 27/28 form when chain_id is None.
C2_Eip155Pairing ==
    (TxRun /\ pc \in {"signed", "encoded", "hashed", "wire", "decoded"}
        /\ origin # "crafted") =>
        /\ signed.tx.chain_id # None <=> signed.signature.v.tag = "Eip155"
        /\ signed.tx.chain_id # None =>
               signed.signature.v.v \in {35 + 2 * signed.tx.chain_id[1],
                                         36 + 2 * signed.tx.chain_id[1]}
        /\ signed.tx.chain_id = None => signed.signature.v.tag = "NonEip155"

\* the transaction the six schema fields alone decode to (chain_id is not among them)
FieldsAlone(b) ==
    Try(HeaderDecode(b), LAMBDA h : rlp_decode_fields(h.rest))

\* C3: chain id recovery on decode: whenever rlp_decode_with_signature succeeds,
\* the returned chain_id is Some(id) exactly when the decoded parity is the
\* EIP-155 form of id (v = 35 + 2 id or 36 + 2 id) and None exactly when the
\* parity is the raw 27/28 form; the six schema fields alone leave chain_id None.
C3_ChainIdRecovered ==
    (TxRun /\ pc = "decoded" /\ res.ok) =>
        /\ res.val.signature.v.tag \in {"Eip155", "NonEip155"}
        /\ res.val.signature.v.tag = "Eip155" <=> res.val.tx.chain_id # None
        /\ res.val.signature.v.tag = "NonEip155" <=> res.val.tx.chain_id = None
        /\ res.val.tx.chain_id # None =>
               res.val.signature.v.v \in {35 + 2 * res.val.tx.chain_id[1],
                                          36 + 2 * res.val.tx.chain_id[1]}
        /\ FieldsAlone(buf).val.chain_id = None

C3_Witness ==
    /\ TxRun /\ pc = "decoded" /\ res.ok
    /\ res.val.signature.v = ParityEip155(38)
    /\ res.val.tx.chain_id = Some(1)
    /\ tx.chain_id = None

\* C4: hash invariant: the hash stored by into_signed is the hash of exactly
\* the bytes rlp_encode_signed writes for the stored tx and stored signature,
\* and is not the hash of the unsigned encodings.
C4_HashOfSignedBytes ==
    (TxRun /\ pc = "wire" /\ origin = "encoded") =>
        /\ signed.hash = keccak256(buf)
        /\ signed.hash # keccak256(encode_for_signing(signed.tx))
        /\ signed.hash # keccak256(rlp_encode_fields(signed.tx))

C4_Witness ==
    /\ TxRun /\ pc = "wire" /\ origin = "encoded"
    /\ signed.tx.chain_id = Some(1)
    /\ signed.hash = keccak256(buf)

\* C5: parity normalization is the same on every call path: the bytes written
\* for the caller's signature equal the bytes written for the signature stored
\* by into_signed, tx_hash_with_type of the caller's signature equals the
\* stored hash, the predicted length is the same for both, the signature the
\* encoder normalizes to is the stored one, and normalizing twice changes nothing.
C5_SameNormalization ==
    (TxRun /\ pc = "wire" /\ origin = "encoded") =>
        /\ out = buf
        /\ hash = Some(signed.hash)
        /\ rlp_encoded_length_with_signature(tx, sig)
               = rlp_encoded_length_with_signature(signed.tx, signed.signature)
        /\ legacy_sig(sig) = signed.signature
        /\ legacy_sig(signed.signature) = signed.signature

C5_Witness ==
    /\ TxRun /\ pc = "wire" /\ origin = "encoded"
    /\ sig.v = ParityParity(TRUE)
    /\ signed.signature.v = ParityNonEip155(TRUE)
    /\ out = buf

\* C6: rejection on truncation: a valid encoding of a signed legacy transaction
\* or of a ReceiptWithBloom with its final byte removed never decodes to a
\* value; the decoder returns ListLengthMismatch or InputTooShort.
C6_TruncationRejected ==
    (pc = "decoded" /\ origin = "truncated") =>
        /\ ~res.ok
        /\ res.err \in {"ListLengthMismatch", "InputTooShort"}

C6_Witness ==
    /\ TxRun /\ pc = "decoded" /\ origin = "truncated"
    /\ tx.chain_id # None
    /\ res.err = "InputTooShort"

\* what a decoder input declares and what its fields consume, measured apart
\* from the decoders: header, then every field of the schema
TxScan(b) ==
    Try(HeaderDecode(b), LAMBDA h :
    Try(rlp_decode_fields(h.rest), LAMBDA t :
    Try(decode_rlp_vrs(t.rest), LAMBDA g :
    Ok([list |-> h.val.list, declared |-> h.val.payload_length,
        consumed |-> Len(h.rest) - Len(g.rest), legacy |-> LegacyParity(g.val.v)], g.rest))))

ReceiptScan(b) ==
    Try(HeaderDecode(b), LAMBDA h :
    Try(Eip658ValueDecode(h.rest), LAMBDA st :
    Try(UintDecode(st.rest, 16), LAMBDA g :
    Try(FixedBytesDecode(g.rest, BLOOM_SIZE_BYTES), LAMBDA bl :
    Try(VecDecode(LogDecode, bl.rest), LAMBDA ls :
    Ok([list |-> h.val.list, declared |-> h.val.payload_length,
        consumed |-> Len(h.rest) - Len(ls.rest), legacy |-> TRUE], ls.rest))))))

Scan == IF TxRun THEN TxScan(buf) ELSE ReceiptScan(buf)

LengthRule(scan, r) ==
    /\ scan.val.consumed # scan.val.declared =>
           /\ r.err = "ListLengthMismatch"
           /\ r.expected = scan.val.declared
           /\ r.got = scan.val.consumed
    /\ scan.val.consumed = scan.val.declared => r.ok

\* C7 (unconditional form): in both decoders, whenever the header is a list and all
\* fields decode, a consumed length that differs from the declared payload
\* length gives ListLengthMismatch {expected = declared, got = consumed}, and
\* a value is returned only when the two are equal.
C7_LengthMismatchWheneverFieldsDecode ==
    (pc = "decoded" /\ Scan.ok /\ Scan.val.list) =>
        /\ Scan.val.consumed # Scan.val.declared =>
               /\ res.err = "ListLengthMismatch"
               /\ res.expected = Scan.val.declared
               /\ res.got = Scan.val.consumed
        /\ res.ok => Scan.val.consumed = Scan.val.declared

\* C7 (after the parity check): the same, for the legacy decoder only when the decoded parity
\* is an accepted legacy form (raw 27/28 or EIP-155), and then a value is
\* returned exactly when the lengths are equal; a plain boolean parity
\* (v = 0 or 1) gives the invalid parity error whatever the lengths are.
C7_LengthMismatchAfterParity ==
    (pc = "decoded" /\ Scan.ok /\ Scan.val.list) =>
        /\ Scan.val.legacy => LengthRule(Scan, res)
        /\ ~Scan.val.legacy => res.err = "Custom: invalid parity for legacy transaction"

C7_Witness ==
    /\ TxRun /\ pc = "decoded"
    /\ res.err = "ListLengthMismatch"
    /\ res.got = res.expected + 1
    /\ Scan.ok

\* C9: bloom consistency at construction: ReceiptWithBloom::from(r) and
\* r.with_bloom() hold logs_bloom = r.bloom_slow() and receipt = r, and a
\* second evaluation of bloom_slow over the stored logs gives the same bits.
C9_BloomAtConstruction ==
    (ReceiptRun /\ how \in {"from", "with_bloom"}) =>
        /\ rwb.receipt = receipt
        /\ rwb.logs_bloom = bloom_slow(receipt)
        /\ pc # "built" => fresh = rwb.logs_bloom

C9_Witness ==
    /\ ReceiptRun /\ how = "from" /\ pc = "read"
    /\ Len(receipt.logs) = 2
    /\ fresh = rwb.logs_bloom
    /\ rwb.logs_bloom # ZeroBloom

\* C10: every ReceiptWithBloom built by From<Receipt>, by new or
\* returned by a successful decode has logs_bloom = bloom_slow of its logs,
\* so bloom() never differs from a fresh recomputation.
C10_CachedBloomAlwaysFresh ==
    /\ (ReceiptRun /\ how # "none") => rwb.logs_bloom = bloom_slow(rwb.receipt)
    /\ (ReceiptRun /\ how # "none" /\ pc # "built") => cached = fresh
    /\ (ReceiptRun /\ pc = "decoded" /\ res.ok) =>
           res.val.logs_bloom = bloom_slow(res.val.receipt)

ReceiptsRun == kind = "receipts"

\* C11: root_slow bounds: root_slow(i, f) returns None without invoking f when
\* i is not below the number of blocks; otherwise it invokes f once, on
\* references to exactly the receipts of block i in their in-block order (the
\* empty slice for an empty block), and returns Some of what f returned; a
\* counting f over blocks of sizes 1 and 2 gives Some(1), Some(2), None.
C11_RootSlowBounds ==
    (ReceiptsRun /\ pc = "rooted") =>
        LET r == root[1]
            n == Len(receipts.receipt_vec)
        IN  /\ r.index >= n => (r.ret = None /\ r.invoked = <<>>)
            /\ r.index < n =>
                 LET block == receipts.receipt_vec[r.index + 1]
                     refs == r.invoked[1]
                 IN  /\ Len(r.invoked) = 1
                     /\ Len(refs) = Len(block)
                     /\ \A j \in 1..Len(block) :
                            /\ refs[j] = Ref(r.index, j - 1)
                            /\ Deref(receipts, refs[j]) = block[j]
                     /\ r.f = "count" => r.ret = Some(Len(block))
                     /\ r.f = "hash" => r.ret = Some(keccak256(block))
            /\ (r.f = "count" /\ n = 2 /\ Len(receipts.receipt_vec[1]) = 1
                    /\ Len(receipts.receipt_vec[2]) = 2) =>
                 r.ret = (CASE r.index = 0 -> Some(1) [] r.index = 1 -> Some(2)
                            [] OTHER -> None)

C11_Witness ==
    /\ ReceiptsRun /\ pc = "rooted"
    /\ Len(receipts.receipt_vec) = 2
    /\ Len(receipts.receipt_vec[1]) = 1 /\ Len(receipts.receipt_vec[2]) = 2
    /\ receipts.receipt_vec[2][1] # receipts.receipt_vec[2][2]
    /\ root[1].index = 1 /\ root[1].f = "count" /\ root[1].ret = Some(2)

\* C12: status/root aliasing: serializing a Receipt emits exactly three
\* fields in the order (status-or-root, cumulativeGasUsed, logs); the first
\* key is "status" exactly when the Eip658Value holds the boolean form and
\* "root" exactly when it holds the post-state hash.
C12_StatusRootAliasing ==
    (ReceiptRun /\ pc = "serialized") =>
        LET f == ser[1].fields
        IN  /\ ser[1].len = 3 /\ Len(f) = 3
            /\ f[1].key \in {"status", "root"}
            /\ f[1].key = "status" <=> receipt.status.tag = "Eip658"
            /\ f[1].key = "root" <=> receipt.status.tag = "PostState"
            /\ f[1].value = receipt.status
            /\ f[2] = [key |-> "cumulativeGasUsed", value |-> receipt.cumulative_gas_used]
            /\ f[3] = [key |-> "logs", value |-> receipt.logs]

C12_Witness ==
    /\ ReceiptRun /\ pc = "serialized"
    /\ receipt.status.tag = "PostState"
    /\ ser[1].fields[1].key = "root"
    /\ Len(receipt.logs) = 1

WalletRun == kind = "wallet"
Canonical(k) == k # Fill(FIELD_BYTES, 0) /\ LessBE(k, ORDER)

AddressDerived(w) ==
    w.res.ok =>
        /\ w.res.val.address = secret_key_to_address(w.res.val.signer)
        /\ w.res.val.address = [address_of |-> Scalar(w.key)]

\* C13: wallet address is derived: every wallet a constructor of
\* private_key.rs returned has address = secret_key_to_address of its own
\* signing key, which is the key the constructor was given.
C13_AddressDerived == WalletRun => (AddressDerived(wallet) /\ AddressDerived(other))

C13_Witness ==
    /\ WalletRun /\ pc = "two"
    /\ wallet.ctor = "decrypt_keystore" /\ wallet.res.ok
    /\ other.ctor = "from_str" /\ other.res.ok /\ other.key = KeyAB
    /\ other.res.val.address # wallet.res.val.address

RawScalar(w) ==
    w.ctor \in {"from_bytes", "from_field_bytes", "from_slice"} =>
        /\ ~Canonical(w.key) => (~w.res.ok /\ w.res.err = "ecdsa::Error")
        /\ Canonical(w.key) =>
             /\ w.res.ok
             /\ to_bytes(w.res.val) = w.key
             /\ to_field_bytes(w.res.val) = w.key

\* C14: raw-scalar construction: from_bytes, from_field_bytes and from_slice
\* of 32 bytes k return a curve error when k is zero or not below the group
\* order, and otherwise a wallet whose to_bytes() and to_field_bytes() are k.
C14_RawScalar == WalletRun => (RawScalar(wallet) /\ RawScalar(other))

C14_Witness ==
    /\ WalletRun /\ pc = "two"
    /\ wallet.ctor = "from_bytes" /\ wallet.key = ORDER /\ ~wallet.res.ok
    /\ other.ctor = "from_slice" /\ other.key = OrderMinus1 /\ other.res.ok
    /\ to_bytes(other.res.val) = OrderMinus1

\* C15: wallet equality: two wallets are equal exactly when their signing-key
\* bytes, addresses and chain_ids are equal; wallets built from the same
\* scalar by from_bytes, from_slice, from_field_bytes and from_str (with or
\* without 0x) are equal and have chain_id None; wallets that differ only in
\* chain_id are not equal.
C15_WalletEquality ==
    /\ (WalletRun /\ pc = "one" /\ wallet.res.ok) => wallet.res.val.chain_id = None
    /\ (WalletRun /\ pc = "compared") =>
        LET a == wallet.res.val
            b == other.res.val
            raw == {"from_bytes", "from_slice", "from_field_bytes", "from_str"}
        IN  /\ equal[1] <=> (/\ to_bytes(a) = to_bytes(b)
                             /\ a.address = b.address
                             /\ a.chain_id = b.chain_id)
            /\ (wallet.ctor \in raw /\ other.ctor \in raw /\ wallet.key = other.key
                    /\ a.chain_id = None /\ b.chain_id = None) => equal[1]
            /\ (to_bytes(a) = to_bytes(b) /\ a.address = b.address
                    /\ a.chain_id # b.chain_id) => ~equal[1]

C15_Witness ==
    /\ WalletRun /\ pc = "compared"
    /\ wallet.ctor = "from_bytes" /\ other.ctor = "from_str"
    /\ wallet.key = other.key
    /\ other.res.val.chain_id = Some(2) /\ wallet.res.val.chain_id = None
    /\ equal = Some(FALSE)

\* C16: snapshot round trip: converting a TxLegacy to the bincode-compatible
\* mirror struct and back gives a value equal to the original in all seven
\* fields, chain_id None and the create kind included.
C16_SnapshotRoundTrip ==
    (TxRun /\ pc = "restored") =>
        /\ restored = Some(tx)
        /\ restored[1].chain_id = tx.chain_id /\ restored[1].nonce = tx.nonce
        /\ restored[1].gas_price = tx.gas_price /\ restored[1].gas_limit = tx.gas_limit
        /\ restored[1].to = tx.to /\ restored[1].value = tx.value
        /\ restored[1].input = tx.input
        /\ compat[1].input.bytes = tx.input

C16_Witness ==
    /\ TxRun /\ pc = "restored"
    /\ tx.chain_id = Some(2) /\ tx.to # Create /\ Len(tx.input) = LongInputLen
    /\ restored = Some(tx)

C16_WitnessCreate ==
    /\ TxRun /\ pc = "restored"
    /\ tx.chain_id = None /\ tx.to = Create
    /\ restored = Some(tx)

\* the six fields in schema order
SixFields(t) ==
    UintEncode(t.nonce) \o UintEncode(t.gas_price) \o UintEncode(t.gas_limit)
        \o TxKindEncode(t.to) \o UintEncode(t.value) \o BytesEncode(t.input)

\* C17: signing encoding layout: encode_for_signing writes a list header over
\* rlp_encoded_fields_length() + eip155_fields_len(), the six fields in the
\* order nonce, gas_price, gas_limit, to, value, input, then the chain id and
\* two encoded zeros exactly when chain_id is Some; the number of bytes
\* written is payload_len_for_signature() and Encodable::length().
C17_SigningLayout ==
    (TxRun /\ pc = "wire_unsigned" /\ origin = "signing") =>
        LET extension == IF tx.chain_id # None
                         THEN UintEncode(tx.chain_id[1]) \o <<128, 128>>
                         ELSE <<>>
            declared == rlp_encoded_fields_length(tx) + eip155_fields_len(tx)
        IN  /\ buf = encode_for_signing(tx)
            /\ buf = HeaderEncode(Header(TRUE, declared)) \o SixFields(tx) \o extension
            /\ declared = Len(SixFields(tx)) + Len(extension)
            /\ Len(buf) = payload_len_for_signature(tx)
            /\ Len(buf) = TxLegacy_length(tx)

C17_Witness ==
    /\ TxRun /\ pc = "wire_unsigned" /\ origin = "signing"
    /\ tx.chain_id = Some(2)
    /\ Len(tx.input) = LongInputLen
    /\ Len(buf) = payload_len_for_signature(tx)

\* C18: invalid legacy parity is a typed error: an input whose header is a
\* list and whose fields and (v, r, s) decode but whose parity is a plain
\* boolean (v = 0 or 1) gives the custom error "invalid parity for legacy
\* transaction"; no signed transaction with such a parity is returned; and no
\* output of rlp_encode_signed is rejected by this check.
C18_InvalidParityTyped ==
    (TxRun /\ pc = "decoded") =>
        /\ (Scan.ok /\ Scan.val.list /\ ~Scan.val.legacy) =>
               (~res.ok /\ res.err = "Custom: invalid parity for legacy transaction")
        /\ res.ok => res.val.signature.v.tag \in {"Eip155", "NonEip155"}
        /\ origin = "encoded" => res.err # "Custom: invalid parity for legacy transaction"

\* the first two parts of C18, on every decoder input
C18_BooleanParityRejected ==
    (TxRun /\ pc = "decoded") =>
        /\ (Scan.ok /\ Scan.val.list /\ ~Scan.val.legacy) =>
               (~res.ok /\ res.err = "Custom: invalid parity for legacy transaction")
        /\ res.ok => res.val.signature.v.tag \in {"Eip155", "NonEip155"}

\* C19: list header required: rlp_decode_with_signature, Decodable::decode for
\* TxLegacy and ReceiptWithBloom::decode fail with UnexpectedString on every
\* input whose first header is a string header, and return no value for it.
C19_ListHeaderRequired ==
    (pc \in {"decoded", "decoded_unsigned"} /\ HeaderDecode(buf).ok
        /\ ~HeaderDecode(buf).val.list) =>
        (~res.ok /\ res.err = "UnexpectedString")

\* the part of C19 that is about the signed decoder and the receipt decoder
C19_ListHeaderRequiredSigned ==
    (pc = "decoded" /\ HeaderDecode(buf).ok /\ ~HeaderDecode(buf).val.list) =>
        (~res.ok /\ res.err = "UnexpectedString")

\* C20: receipt RLP round trip: encode writes list header, status,
\* cumulative_gas_used, the 256-byte bloom and the logs list in that order,
\* length() is the number of bytes written, and decoding those bytes returns
\* the same ReceiptWithBloom, its bloom as it was on the wire, whatever the
\* status tag, the logs and the bloom are.
C20_ReceiptRoundTrip ==
    /\ (ReceiptRun /\ pc \in {"wire", "decoded"} /\ origin = "encoded") =>
        LET payload == Eip658ValueEncode(rwb.receipt.status)
                           \o UintEncode(rwb.receipt.cumulative_gas_used)
                           \o <<185, 1, 0>> \o rwb.logs_bloom
                           \o VecEncode(LogEncode, rwb.receipt.logs)
        IN  /\ buf = HeaderEncode(Header(TRUE, Len(payload))) \o payload
            /\ Len(buf) = ReceiptWithBloom_length(rwb)
    /\ (ReceiptRun /\ pc = "decoded" /\ origin = "encoded") =>
        /\ res.ok
        /\ res.val = rwb
        /\ res.val.logs_bloom = rwb.logs_bloom
        /\ res.rest = <<>>

C20_Witness ==
    /\ ReceiptRun /\ pc = "decoded" /\ origin = "encoded" /\ res.ok
    /\ how = "new"
    /\ rwb.receipt.status.tag = "PostState"
    /\ Len(rwb.receipt.logs) = 2
    /\ res.val.logs_bloom # bloom_slow(res.val.receipt)
    /\ res.val.logs_bloom # ZeroBloom

\* C21: signed length predictions agree with the bytes written: for every
\* transaction and every signature, one whose parity is still a plain boolean
\* included, rlp_encoded_length_with_signature, eip2718_encoded_length,
\* network_encoded_length and the total length described by network_header
\* (which does not normalize the signature) all equal the number of bytes
\* rlp_encode_signed wrote, and the list header written declares a payload of
\* the fields length plus the length of (v, r, s).
C21_SignedLengthsAgree ==
    (TxRun /\ pc = "measured") =>
        LET written == HeaderDecode(out)
        IN  /\ lens[1].rlp = Len(out)
            /\ lens[1].eip2718 = Len(out)
            /\ lens[1].network = Len(out)
            /\ HeaderLengthWithPayload(lens[1].header) = Len(out)
            /\ written.ok /\ written.val.list
            /\ written.val.payload_length
                   = rlp_encoded_fields_length(tx) + rlp_vrs_len(legacy_sig(sig))
            /\ written.val.payload_length = Len(written.rest)

C21_Witness ==
    /\ TxRun /\ pc = "measured"
    /\ sig.v.tag = "Parity"
    /\ tx.chain_id # None
    /\ Len(tx.input) = LongInputLen
    /\ lens[1].header.payload_length > 55
    /\ HeaderLengthWithPayload(lens[1].header) = Len(out)
    /\ lens[1].network = Len(out)

\* C22: unsigned decode consumes exactly one value: for every transaction
\* (chain_id None or Some) and every byte string rest, Decodable::decode
\* applied to encode(tx) followed by rest returns a value equal to tx and
\* leaves the cursor at the first byte of rest; with rest empty this is the
\* round trip decode(encode(tx)) = tx.
C22_UnsignedDecodeOneValue ==
    (TxRun /\ pc = "decoded_unsigned" /\ origin \in {"signing", "followed"}) =>
        /\ res.ok
        /\ res.val = tx
        /\ res.rest = Drop(buf, Len(TxLegacy_encode(tx)))

\* the part of C22 the decoder meets: the round trip with nothing after the
\* value, and a value with a chain id followed by other bytes
C22_RoundTripWithChainIdOrNoRest ==
    (TxRun /\ pc = "decoded_unsigned" /\ origin \in {"signing", "followed"}
        /\ (origin = "signing" \/ tx.chain_id # None)) =>
        /\ res.ok
        /\ res.val = tx
        /\ res.rest = Drop(buf, Len(TxLegacy_encode(tx)))

\* without a chain id, bytes after the declared payload are read as the
\* EIP-155 fields and the decode fails
C22_RestReadAsEip155Fields ==
    (TxRun /\ pc = "decoded_unsigned" /\ origin = "followed" /\ tx.chain_id = None) =>
        /\ ~res.ok
        /\ res.err \in {"InputTooShort", "UnexpectedLength", "UnexpectedList"}

\* C23: receipt decode cursor discipline: ReceiptWithBloom::decode leaves the
\* caller's cursor exactly where it was on every error outcome (header error,
\* UnexpectedString, field error, ListLengthMismatch), and on success
\* advances it by exactly the header length plus the declared payload
\* length, leaving any following bytes unread.
C23_ReceiptDecodeCursor ==
    (ReceiptRun /\ pc = "decoded") =>
        LET head == HeaderDecode(buf)
            header_length == Len(buf) - Len(head.rest)
        IN  /\ ~res.ok => res.rest = buf
            /\ res.ok =>
                /\ head.ok
                /\ res.rest = Drop(buf, header_length + head.val.payload_length)

\* the decoder stopped after the declared payload and left the byte behind it
C23_Witness ==
    /\ ReceiptRun /\ pc = "decoded" /\ origin = "crafted"
    /\ res.ok
    /\ res.rest = <<128>>
    /\ Len(buf) > 1 + Len(rwb.logs_bloom)

\* C24: receipts collection ordering: starting from any collection (Default,
\* From<Vec<T>> giving exactly one block, or FromIterator), after any sequence
\* of push(block) calls len() is the initial block count plus the number of
\* pushes, is_empty() holds iff len() is 0, each push appended its block as
\* the new last outer index, and no push changed the position or content of
\* an earlier block, so root_slow(i, f) for an earlier i returns the same
\* before and after.
C24_ReceiptsOrdering ==
    ReceiptsRun =>
        LET initial == Receipts_len(track.start)
            pushes == Len(track.pushed)
        IN  /\ track.ctor = "default" => initial = 0
            /\ track.ctor = "from" => initial = 1
            /\ Receipts_len(receipts) = initial + pushes
            /\ Receipts_is_empty(receipts) <=> Receipts_len(receipts) = 0
            /\ \A i \in 1..initial : receipts.receipt_vec[i] = track.start.receipt_vec[i]
            /\ \A k \in 1..pushes : receipts.receipt_vec[initial + k] = track.pushed[k]
            /\ pushes > 0 =>
                 LET before == track.before[1]
                     n == Receipts_len(before)
                 IN  /\ Receipts_len(receipts) = n + 1
                     /\ receipts.receipt_vec[n + 1] = track.pushed[pushes]
                     /\ \A i \in 0..(n - 1) :
                            /\ receipts.receipt_vec[i + 1] = before.receipt_vec[i + 1]
                            /\ \A f \in Fns :
                                   root_slow(receipts, i, f) = root_slow(before, i, f)

C24_Witness ==
    /\ ReceiptsRun /\ pc = "rooted"
    /\ track.ctor = "from"
    /\ Len(track.start.receipt_vec[1]) = 2
    /\ Len(track.pushed) = 1
    /\ track.pushed[1] # track.start.receipt_vec[1]
    /\ Receipts_len(receipts) = 2
    /\ ~Receipts_is_empty(receipts)
    /\ root[1].index = 0 /\ root[1].f = "hash"
    /\ root[1].ret = root_slow(track.before[1], 0, "hash").ret
    /\ root[1].ret # None

====
